---- MODULE Spec2Model ----
(***************************************************************************)
(* Model of gh_spyglass.py: build_query, github_search_count, count_range  *)
(* and run.  Time is counted in ticks (the resolution of datetime); a      *)
(* date is a day number and a datetime is a tick count since day 0.        *)
(* Strings are sequences of tokens.                                        *)
(***************************************************************************)
EXTENDS Integers, Sequences, FiniteSets, TLC

VARIABLES args, source, failAt, pc, exit, stack, retval, terms, idx,
          results, out, calls, failed

vars == <<args, source, failAt, pc, exit, stack, retval, terms, idx,
          results, out, calls, failed>>

\* ---------------------------------------------------------------- bounds
\* ticks of datetime resolution in one second (scaled down)
TicksPerSec == 2
\* seconds in one day (scaled down)
SecsPerDay == 3
\* the last day number an input date may name (days 0..MaxDay)
MaxDay == 3
\* longest --topics list
MaxTopics == 2
\* longest --keywords list
MaxKeywords == 1
\* the remote query (1-based) that fails; 0 = none fails
MaxFailAt == 3
\* deepest call stack the model follows
MaxDepth == 12

TicksPerDay == TicksPerSec * SecsPerDay

TopicNames == {"cli", "api"}
KeywordNames == {"tool"}

\* ------------------------------------------------------------- constants
\* the Search API's result-window cap tested by count_range
Cap == 1000
\* per-day match count of the date-dependent mocked source
PerDay == 400
\* total_count of the test-suite mock
SmallTotal == 42

\* ---------------------------------------------------------------- helpers
SeqsUpTo(S, n) == UNION {[1..k -> S] : k \in 0..n}

RECURSIVE Join(_, _)
\* sep.join(parts) on token sequences
Join(parts, sep) ==
    IF parts = <<>> THEN <<>>
    ELSE IF Len(parts) = 1 THEN parts[1]
    ELSE parts[1] \o <<sep>> \o Join(Tail(parts), sep)

\* [f"topic:{t}" for t in topics]
TopicTerms(topics) == [i \in 1..Len(topics) |-> <<"topic:", topics[i]>>]

\* [f"{k} in:name,description,readme" for k in keywords]
KeywordTerms(keywords) ==
    [i \in 1..Len(keywords) |-> <<keywords[i], " in:name,description,readme">>]

build_query_noparens(topics, keywords) ==
    LET parts == TopicTerms(topics) \o KeywordTerms(keywords)
    IN  Join(parts, " OR ")

build_query(topics, keywords) ==
    LET p1 == IF topics # <<>> THEN TopicTerms(topics) ELSE <<>>
        parts == IF keywords # <<>> THEN p1 \o KeywordTerms(keywords) ELSE p1
    IN  IF parts = <<>> THEN <<>>
        ELSE IF Len(parts) = 1 THEN parts[1]
        ELSE <<"(">> \o Join(parts, " OR ") \o <<")">>

\* ------------------------------------------------------------ dates
\* a date argument either matches %Y-%m-%d and names a day, or does not
DateStrings == [wellformed : {TRUE}, day : 0..MaxDay]
                 \cup {[wellformed |-> FALSE, day |-> 0]}

\* datetime.strptime(s, "%Y-%m-%d") raises ValueError
parse_raises(s) == ~s.wellformed

\* datetime.strptime(s, "%Y-%m-%d"): midnight of the day
parse_date(s) == s.day * TicksPerDay

\* datetime.date()
date(t) == t \div TicksPerDay

HalfUp(d) == (d + 1) \div 2

\* timedelta / 2, rounded to the resolution, ties to even
Half(d) ==
    LET q == d \div 2
    IN  IF d % 2 = 0 THEN q
        ELSE IF q % 2 = 1 THEN q + 1 ELSE q

\* mid = start + (end - start) / 2
Mid(start, end) == start + Half(end - start)

\* right_start = mid + timedelta(seconds=1)
RightStart(mid) == mid + TicksPerSec

\* ------------------------------------------------------------ remote
Sources == {[kind |-> "const", val |-> SmallTotal],
            [kind |-> "const", val |-> Cap],
            [kind |-> "perday", val |-> PerDay],
            [kind |-> "absent", val |-> 0]}

\* date_range / full_query of count_range
FullQuery(query_base, start, end) ==
    [q |-> IF query_base # <<>> THEN query_base \o <<" ">> ELSE <<>>,
     created |-> <<date(start), date(end)>>]

\* the mocked Search API: the JSON body answered to a query
Respond(src, query) ==
    LET a == query.created[1]
        b == query.created[2]
    IN  IF src.kind = "absent" THEN [items |-> <<>>]
        ELSE IF src.kind = "const"
             THEN [items |-> <<>>, total_count |-> src.val]
        ELSE [items |-> <<>>,
              total_count |-> IF a <= b THEN src.val * (b - a + 1) ELSE 0]

\* int(resp.get("total_count", 0))
TotalCount(resp) ==
    IF "total_count" \in DOMAIN resp THEN resp.total_count ELSE 0

ShouldSplitAlways(exact, total, start, end) == total >= Cap /\ start < end

\* exact and total >= 1000 and start < end
ShouldSplit(exact, total, start, end) ==
    exact /\ total >= Cap /\ start < end

RightDegenerateNever(right_start, end) == FALSE

\* right_start > end
RightDegenerate(right_start, end) == right_start > end

\* a count_range invocation about to issue its query
Frame(query_base, start, end, exact) ==
    [query_base |-> query_base, start |-> start, end |-> end,
     exact |-> exact, pc |-> "query", resp |-> [items |-> <<>>],
     total |-> 0, left |-> 0, kids |-> 0, entry_calls |-> calls]

RECURSIVE SumValues(_)
\* sum(results.values())
SumValues(d) ==
    IF DOMAIN d = {} THEN 0
    ELSE LET k == CHOOSE x \in DOMAIN d : TRUE
         IN  d[k] + SumValues([x \in DOMAIN d \ {k} |-> d[x]])

EmptyDict == [x \in {} |-> 0]

Top == stack[Len(stack)]
Pop == SubSeq(stack, 1, Len(stack) - 1)

\* ------------------------------------------------------------------ Init
Init ==
    /\ args \in [start : DateStrings, end : DateStrings,
                 topics : SeqsUpTo(TopicNames, MaxTopics),
                 keywords : SeqsUpTo(KeywordNames, MaxKeywords),
                 per_term : BOOLEAN, exact : BOOLEAN]
    /\ source \in Sources
    /\ failAt \in 0..MaxFailAt
    /\ pc = "start"
    /\ exit = <<>>
    /\ stack = <<>>
    /\ retval = <<>>
    /\ terms = <<>>
    /\ idx = 0
    /\ results = EmptyDict
    /\ out = <<>>
    /\ calls = 0
    /\ failed = FALSE

UsageExitOne(msg) ==
    /\ pc' = "exited"
    /\ exit' = <<1>>
    /\ out' = Append(out, [kind |-> msg, term |-> <<>>, val |-> 0])
    /\ UNCHANGED <<stack, retval, terms, idx>>

\* print(msg); return 2
UsageExit(msg) ==
    /\ pc' = "exited"
    /\ exit' = <<2>>
    /\ out' = Append(out, [kind |-> msg, term |-> <<>>, val |-> 0])
    /\ UNCHANGED <<stack, retval, terms, idx>>

\* run, from the parsed arguments to its first remote query or its return
Start ==
    /\ pc = "start"
    /\ UNCHANGED <<args, source, failAt, results, calls, failed>>
    /\ IF parse_raises(args.start) \/ parse_raises(args.end)
       THEN UsageExit("Invalid date")
       ELSE LET start == parse_date(args.start)
                end == parse_date(args.end)
                query_base == build_query(args.topics, args.keywords)
                ts == TopicTerms(args.topics) \o KeywordTerms(args.keywords)
            IN  IF start > end THEN UsageExit("Start must be <= end")
                ELSE IF query_base = <<>>
                THEN UsageExit("Provide at least one topic or keyword")
                ELSE /\ pc' = "counting"
                     /\ retval' = <<>>
                     /\ UNCHANGED <<exit, out>>
                     /\ IF args.per_term
                        THEN /\ terms' = ts
                             /\ idx' = 1
                             /\ stack' = <<Frame(ts[1], start, end, args.exact)>>
                        ELSE /\ terms' = <<>>
                             /\ idx' = 0
                             /\ stack' = <<Frame(query_base, start, end,
                                                 args.exact)>>

\* count_range lines 53-61 and 68: the query answers, then split or return
Search ==
    /\ pc = "counting" /\ stack # <<>> /\ retval = <<>>
    /\ Top.pc = "query"
    /\ calls + 1 # failAt
    /\ LET f == Top
           resp == Respond(source, FullQuery(f.query_base, f.start, f.end))
           total == TotalCount(resp)
           mid == Mid(f.start, f.end)
       IN  /\ calls' = calls + 1
           /\ IF ShouldSplit(f.exact, total, f.start, f.end)
              THEN /\ Len(stack) < MaxDepth
                   /\ stack' = Append(
                        [stack EXCEPT ![Len(stack)] =
                            [f EXCEPT !.pc = "left", !.resp = resp,
                                      !.total = total, !.kids = 1]],
                        [Frame(f.query_base, f.start, mid, f.exact)
                            EXCEPT !.entry_calls = calls + 1])
                   /\ retval' = <<>>
              ELSE /\ stack' = Pop
                   /\ retval' = <<[frame |-> [f EXCEPT !.resp = resp,
                                                       !.total = total],
                                   value |-> total,
                                   queries |-> calls + 1 - f.entry_calls]>>
    /\ UNCHANGED <<args, source, failAt, pc, exit, terms, idx, results, out,
                   failed>>

SearchFailSwallowed ==
    /\ pc = "counting" /\ stack # <<>> /\ retval = <<>>
    /\ Top.pc = "query"
    /\ calls + 1 = failAt
    /\ calls' = calls + 1
    /\ failed' = TRUE
    /\ stack' = Pop
    /\ retval' = <<[frame |-> Top, value |-> 0,
                    queries |-> calls + 1 - Top.entry_calls]>>
    /\ UNCHANGED <<args, source, failAt, pc, exit, terms, idx, results, out>>

\* github_search_count line 43 raises; nothing catches it up to line 121
SearchFail ==
    /\ pc = "counting" /\ stack # <<>> /\ retval = <<>>
    /\ Top.pc = "query"
    /\ calls + 1 = failAt
    /\ calls' = calls + 1
    /\ failed' = TRUE
    /\ stack' = <<>>
    /\ pc' = "exited"
    /\ exit' = <<1>>
    /\ UNCHANGED <<args, source, failAt, retval, terms, idx, results, out>>

\* count_range lines 61-66: left has returned
ResumeLeft ==
    /\ pc = "counting" /\ stack # <<>> /\ retval # <<>>
    /\ Top.pc = "left"
    /\ LET f == Top
           left == retval[1].value
           mid == Mid(f.start, f.end)
           right_start == RightStart(mid)
       IN  IF RightDegenerate(right_start, f.end)
           THEN /\ stack' = Pop
                /\ retval' = <<[frame |-> [f EXCEPT !.left = left],
                                value |-> left,
                                queries |-> calls - f.entry_calls]>>
           ELSE /\ Len(stack) < MaxDepth
                /\ stack' = Append(
                     [stack EXCEPT ![Len(stack)] =
                         [f EXCEPT !.pc = "right", !.left = left, !.kids = 2]],
                     Frame(f.query_base, right_start, f.end, f.exact))
                /\ retval' = <<>>
    /\ UNCHANGED <<args, source, failAt, pc, exit, terms, idx, results, out,
                   calls, failed>>

\* count_range line 67: right has returned
ResumeRight ==
    /\ pc = "counting" /\ stack # <<>> /\ retval # <<>>
    /\ Top.pc = "right"
    /\ LET f == Top
           right == retval[1].value
       IN  /\ stack' = Pop
           /\ retval' = <<[frame |-> f,
                           value |-> f.left + right,
                           queries |-> calls - f.entry_calls]>>
    /\ UNCHANGED <<args, source, failAt, pc, exit, terms, idx, results, out,
                   calls, failed>>

\* run lines 106-117: count_range has returned to run
RunResume ==
    /\ pc = "counting" /\ stack = <<>> /\ retval # <<>>
    /\ LET cnt == retval[1].value
       IN  IF args.per_term
           THEN LET t == terms[idx]
                    res == (t :> cnt) @@ results
                    line == [kind |-> "term", term |-> t, val |-> cnt]
                IN  /\ results' = res
                    /\ IF idx < Len(terms)
                       THEN /\ idx' = idx + 1
                            /\ out' = Append(out, line)
                            /\ stack' = <<Frame(terms[idx + 1],
                                                parse_date(args.start),
                                                parse_date(args.end),
                                                args.exact)>>
                            /\ retval' = <<>>
                            /\ UNCHANGED <<pc, exit>>
                       ELSE /\ out' = out \o
                                <<line, [kind |-> "TOTAL (sum of terms)",
                                         term |-> <<>>,
                                         val |-> SumValues(res)]>>
                            /\ pc' = "exited"
                            /\ exit' = <<0>>
                            /\ retval' = <<>>
                            /\ UNCHANGED <<idx, stack>>
           ELSE /\ out' = Append(out,
                    [kind |-> "TOTAL matching any provided topics/keywords",
                     term |-> <<>>, val |-> cnt])
                /\ pc' = "exited"
                /\ exit' = <<0>>
                /\ retval' = <<>>
                /\ UNCHANGED <<idx, stack, results>>
    /\ UNCHANGED <<args, source, failAt, terms, calls, failed>>

Next ==
    \/ Start
    \/ Search
    \/ SearchFail
    \/ ResumeLeft
    \/ ResumeRight
    \/ RunResume

Spec == Init /\ [][Next]_vars

\* the interpreter runs the single thread to its end
LiveSpec == Spec /\ WF_vars(Next)

\* ================================================================ claims
PerDaySource == source.kind = "perday"
AlwaysCapped == source.kind = "const" /\ source.val = Cap

\* the top-level count_range call has just returned to run
TopReturned == pc = "counting" /\ stack = <<>> /\ retval # <<>>

\* C1: with a source answering PerDay matches for every day of the queried
\* range, an exact count over [start, end] returns the day-by-day sum: every
\* day is counted exactly once.
C1_NoDoubleCount ==
    (TopReturned /\ PerDaySource /\ args.exact) =>
        retval[1].value =
            PerDay * (date(retval[1].frame.end)
                        - date(retval[1].frame.start) + 1)

\* C2: an exact count against a source that always answers the cap
\* terminates: the run reaches its exit with a sum.
C2_Terminates ==
    (pc = "counting" /\ AlwaysCapped /\ args.exact /\ failAt = 0)
        ~> (pc = "exited" /\ exit = <<0>>)

C2_Witness ==
    /\ pc = "exited" /\ exit = <<0>> /\ AlwaysCapped /\ args.exact
    /\ failAt = 0 /\ calls > 2 /\ args.end.day > args.start.day

\* C3: an invocation whose start and end fall on the same calendar date
\* makes no recursive call and returns the total of its own query.
C3_SameDateNoSplit ==
    /\ \A i \in 1..Len(stack) :
          date(stack[i].start) = date(stack[i].end) => stack[i].kids = 0
    /\ (retval # <<>> /\ date(retval[1].frame.start)
                            = date(retval[1].frame.end)) =>
          /\ retval[1].frame.kids = 0
          /\ retval[1].value = retval[1].frame.total

\* C4: an invocation with exact false, or whose query reports a total below
\* the cap, issues exactly one query, makes no recursive call and returns
\* the response's total_count (0 when the field is absent).
C4_SingleQuery ==
    retval # <<>> =>
        LET r == retval[1]
        IN  (~r.frame.exact \/ r.frame.total < Cap) =>
              /\ r.queries = 1
              /\ r.frame.kids = 0
              /\ r.value = IF "total_count" \in DOMAIN r.frame.resp
                           THEN r.frame.resp.total_count ELSE 0
              /\ r.frame.resp = Respond(source,
                    FullQuery(r.frame.query_base, r.frame.start, r.frame.end))

C4_Witness ==
    /\ retval # <<>>
    /\ ~retval[1].frame.exact
    /\ retval[1].frame.total >= Cap
    /\ retval[1].frame.start < retval[1].frame.end

\* the i-th term of the lists: topics first, then keywords
ExpectedTerm(i) ==
    IF i <= Len(args.topics)
    THEN <<"topic:", args.topics[i]>>
    ELSE <<args.keywords[i - Len(args.topics)], " in:name,description,readme">>

NumTerms == Len(args.topics) + Len(args.keywords)

\* the shape C5 gives the query of the run's arguments
ExpectedShape(q) ==
    /\ NumTerms = 0 => q = <<>>
    /\ NumTerms = 1 => q = ExpectedTerm(1)
    /\ NumTerms >= 2 =>
          /\ Len(q) = 3 * NumTerms + 1
          /\ q[1] = "("
          /\ q[Len(q)] = ")"
          /\ \A i \in 1..NumTerms :
                /\ <<q[3 * i - 1], q[3 * i]>> = ExpectedTerm(i)
                /\ i < NumTerms => q[3 * i + 1] = " OR "

\* C5: build_query returns the empty string for no terms, the term itself
\* for one term, and the terms joined by " OR " inside one pair of
\* parentheses for two or more; the aggregate count is made with it.
C5_BuildQuery ==
    /\ ExpectedShape(build_query(args.topics, args.keywords))
    /\ (pc = "counting" /\ ~args.per_term /\ stack # <<>>) =>
          ExpectedShape(stack[1].query_base)

C5_Witness ==
    /\ pc = "counting" /\ ~args.per_term /\ stack # <<>>
    /\ NumTerms = 3
    /\ stack[1].query_base[1] = "("

HasTotalLine ==
    \E i \in 1..Len(out) :
        out[i].kind \in {"TOTAL (sum of terms)",
                         "TOTAL matching any provided topics/keywords"}

\* C6: once a remote query has failed, no further query is issued, no
\* count_range call returns, and the run has ended with a non-zero exit
\* and without a TOTAL line.
C6_FailureAborts ==
    [][/\ failed => calls' = calls
       /\ failed' => /\ pc' = "exited"
                     /\ exit' # <<>> /\ exit' # <<0>>
                     /\ stack' = <<>> /\ retval' = <<>>
                     /\ ~HasTotalLine']_vars

C6_Witness ==
    /\ failed /\ pc = "exited" /\ calls >= 3 /\ args.exact
    /\ args.per_term /\ Len(out) >= 1

UsageError ==
    \/ ~args.start.wellformed
    \/ ~args.end.wellformed
    \/ args.start.day > args.end.day
    \/ args.topics = <<>> /\ args.keywords = <<>>

\* C7: a usage error ends the run with exit code 2 before any remote
\* query; a run with valid arguments and no remote failure ends with 0.
C7_ExitCodes ==
    /\ UsageError => calls = 0 /\ pc # "counting"
    /\ (pc = "exited" /\ UsageError) => exit = <<2>>
    /\ (pc = "exited" /\ ~UsageError /\ ~failed) => exit = <<0>>

C7_Witness ==
    /\ pc = "exited" /\ exit = <<2>>
    /\ args.start.wellformed /\ args.end.wellformed
    /\ args.start.day > args.end.day
    /\ args.topics # <<>>

RECURSIVE Halvings(_)
\* how many times a span of d days is halved before it is one day
Halvings(d) == IF d <= 1 THEN 0 ELSE 1 + Halvings((d + 1) \div 2)

\* C8: the depth of nested count_range invocations never exceeds the number
\* of halvings of the range's days plus the top-level call, and no
\* invocation splits a range that is at one-day resolution.
C8_DepthBound ==
    pc = "counting" =>
        /\ Len(stack) <= Halvings(args.end.day - args.start.day + 1) + 1
        /\ \A i \in 1..Len(stack) :
              stack[i].kids > 0 => date(stack[i].start) < date(stack[i].end)

\* C9: a recursive invocation receives a range with start <= end that lies
\* within its parent's range and is strictly shorter; the right child
\* starts one second after mid and only when that is not after end.
C9_ChildShrinks ==
    \A i \in 1..(Len(stack) - 1) :
        LET p == stack[i]
            c == stack[i + 1]
        IN  p.start <= p.end =>
              /\ c.start <= c.end
              /\ c.start >= p.start
              /\ c.end <= p.end
              /\ c.end - c.start < p.end - p.start
              /\ p.pc = "right" =>
                    /\ c.start = Mid(p.start, p.end) + TicksPerSec
                    /\ c.start <= p.end

C9_Witness ==
    /\ Len(stack) >= 3
    /\ stack[Len(stack) - 1].pc = "right"
    /\ stack[Len(stack) - 2].pc = "right"

TermLines == SelectSeq(out, LAMBDA l : l.kind = "term")

RECURSIVE SumLines(_)
SumLines(ls) == IF ls = <<>> THEN 0 ELSE ls[1].val + SumLines(Tail(ls))

\* C10: a per-term run prints one count line per listed term, in order,
\* and its TOTAL (sum of terms) line is the sum of the printed counts.
C10_TotalIsSumOfLines ==
    (pc = "exited" /\ exit = <<0>> /\ args.per_term) =>
        /\ Len(TermLines) = NumTerms
        /\ \A i \in 1..NumTerms : TermLines[i].term = ExpectedTerm(i)
        /\ out[Len(out)].kind = "TOTAL (sum of terms)"
        /\ out[Len(out)].val = SumLines(TermLines)

====
